---- MODULE Spec2Model ----
(***************************************************************************)
(* Model of the Solana fund mixer: the funding-graph planner               *)
(* (app/mixer.ts: buildFundingGraph, randomSplit) and the plan executor    *)
(* (runMixing in the three revisions of app/page.tsx), the page's wallet   *)
(* persistence and sweep (handleSweep, handleReset) and sweepSol            *)
(* (app/solanaUtils.ts).                                                    *)
(*                                                                         *)
(* Amounts are held in lamports (SOL * LAMPORTS_PER_SOL) as exact          *)
(* rationals <<numerator, denominator>>: the source computes them in IEEE  *)
(* doubles, of which the rationals are the rounding-free reading.          *)
(***************************************************************************)
EXTENDS Integers, Sequences, FiniteSets, TLC

VARIABLES
    \* ---- randomSplit(total, n) applied on its own
    sTotal,        \* argument total (lamports, integer)
    sN,            \* argument n
    sOut,          \* [called, shares, jitter]: the returned array and the draws behind it
    \* ---- one buildFundingGraph call
    gArgs,         \* [R, totalSol, rent, T, rentOk]: the arguments and the rent query's outcome
    gRes,          \* "none" | "graph" | "insufficient" | "rentfail"
    gGraph,        \* the returned FundingGraph: [nodes, edges], or NoGraph
    \* ---- the page: one runMixing execution, or one session of its handlers
    rev,           \* page revision: 0 (part_000), 1 (part_001), 2 (part_002)
    pc,            \* position of the flow of the handler at work
    plan,          \* g.edges of the plan being walked
    idx,           \* index of the edge the for-loop is at (1-based)
    now,           \* performance.now(), in seconds
    startTime,     \* startTime captured before planning
    inflight,      \* external operations started and not yet settled: set of [edge, op]
    calls,         \* every external operation started so far, in order: Seq([edge, op])
    log,           \* the operator log: Seq([tag, edge])
    running,       \* the UI's running flag
    \* ---- a session of the page: mount, runMixing, handleSweep, handleReset
    store,         \* localStorage[WALLET_STORAGE_KEY]: the key stored, 0 for none
    gen,           \* number of Keypair.generate() calls since no key was last held
                   \* or stored; the k-th key generated is k
    depositWallet, \* the depositWallet state: a key, 0 for null
    planNodes,     \* plan.nodes of the plan state, <<>> for null
    totalSwept,    \* handleSweep's totalSwept, lamports
    funded,        \* keys of the intermediate wallets that have received a
                   \* transfer and have not been swept since
    \* ---- sweepSol applied on its own
    swArgs,        \* [balance, balOk, txOk]: the wallet's balance and the RPC outcomes
    swOut,         \* [called, threw, transfers, signature, amount]
    \* ---- deposit polling and the starts of runMixing
    waitingForDeposit, \* the waitingForDeposit state
    interval,      \* the 3 s polling interval is set
    queries,       \* interval callbacks awaiting their refreshBalance()
    pending,       \* runMixing calls deferred by setTimeout (rev 0, 2) or awaiting
                   \* their refreshBalance() (rev 1): not yet at setRunning(true)
    active,        \* runMixing executions past setRunning(true) and not yet returned
    lastError      \* the last step was an external call raising an error

splitVars == <<sTotal, sN, sOut>>
graphVars == <<gArgs, gRes, gGraph>>
execVars  == <<rev, pc, plan, idx, now, startTime, inflight, calls, log, running>>
sessionVars  == <<store, gen, depositWallet, planNodes, totalSwept, funded>>
sweepSolVars == <<swArgs, swOut>>
pollVars     == <<waitingForDeposit, interval, queries, pending, active, lastError>>
vars      == <<sTotal, sN, sOut, gArgs, gRes, gGraph,
               rev, pc, plan, idx, now, startTime, inflight, calls, log, running,
               store, gen, depositWallet, planNodes, totalSwept, funded, swArgs, swOut,
               waitingForDeposit, interval, queries, pending, active, lastError>>

-----------------------------------------------------------------------------
(* Exact rational arithmetic on <<n, d>>, d > 0, kept in lowest terms.     *)

Abs(x) == IF x < 0 THEN -x ELSE x

RECURSIVE GCD(_, _)
GCD(a, b) == IF b = 0 THEN a ELSE GCD(b, a % b)

LCM(a, b) == (a \div GCD(a, b)) * b

RNorm(n, d) ==
    LET g == GCD(Abs(n), d)
    IN  IF n < 0 THEN <<-(Abs(n) \div g), d \div g>> ELSE <<n \div g, d \div g>>

RInt(k) == <<k, 1>>

RAdd(x, y) ==
    LET l == LCM(x[2], y[2])
    IN  RNorm(x[1] * (l \div x[2]) + y[1] * (l \div y[2]), l)

RMul(x, y) ==
    LET g1 == GCD(Abs(x[1]), y[2])
        g2 == GCD(Abs(y[1]), x[2])
        sx == IF x[1] < 0 THEN -1 ELSE 1
        sy == IF y[1] < 0 THEN -1 ELSE 1
    IN  <<sx * sy * (Abs(x[1]) \div g1) * (Abs(y[1]) \div g2),
          (x[2] \div g2) * (y[2] \div g1)>>

\* x / y for y > 0
RDiv(x, y) == RMul(x, <<y[2], y[1]>>)

\* comparisons over the common denominator
RLeq(x, y) ==
    LET l == LCM(x[2], y[2]) IN x[1] * (l \div x[2]) <= y[1] * (l \div y[2])
RLt(x, y) ==
    LET l == LCM(x[2], y[2]) IN x[1] * (l \div x[2]) < y[1] * (l \div y[2])

RECURSIVE RSum(_)
RSum(s) == IF s = <<>> THEN RInt(0) ELSE RAdd(Head(s), RSum(Tail(s)))

MapSeq(s, Op(_)) == [i \in 1..Len(s) |-> Op(s[i])]

-----------------------------------------------------------------------------
(* randomSplit (mixer.ts:186-207)                                          *)

\* Bounds of the split inputs
MaxN     == 4
MaxTotal == 3

\* variationPercentage = 0.30, in percent
VariationPercent == 30

\* (Math.random() - 0.5) * variationPercentage, in percent of the equal share:
\* Math.random() is in [0, 1), so the jitter is in [-15, 15); the draws kept
\* are the two ends of that range and its middle.
JitterDraws == { -(VariationPercent \div 2), 0, (VariationPercent \div 2) - 1 }

\* initialShares: equalShare * (1 + jitter) for each drawn jitter
InitialShares(total, n, jit) ==
    LET equalShare == RDiv(RInt(total), RInt(n))
    IN  [i \in 1..n |-> RMul(equalShare, RAdd(RInt(1), <<jit[i], 100>>))]

\* the shares with the rescaling by total / currentTotal left out
NormalizeDropped(total, shares) == shares

\* finalShares: every share times normalizationFactor = total / currentTotal
Normalize(total, shares) ==
    LET currentTotal        == RSum(shares)
        normalizationFactor == RDiv(RInt(total), currentTotal)
    IN  MapSeq(shares, LAMBDA sh : RMul(sh, normalizationFactor))

\* randomSplit with the early return taken only for n <= 0
RandomSplitNoTotalGuard(total, n, jit) ==
    IF n <= 0 THEN <<>>
    ELSE IF n = 1 THEN <<RInt(total)>>
    ELSE IF total <= 0 THEN [i \in 1..n |-> RDiv(RInt(total), RInt(n))]
    ELSE Normalize(total, InitialShares(total, n, jit))

\* randomSplit(total, n) under the jitter draws jit (one per share)
RandomSplit(total, n, jit) ==
    IF n <= 0 \/ total <= 0 THEN <<>>
    ELSE IF n = 1 THEN <<RInt(total)>>
    ELSE Normalize(total, InitialShares(total, n, jit))

\* the jitter draws of one call: n of them when the code reaches the sampling
JitterSeqs(total, n) ==
    IF n <= 1 \/ total <= 0 THEN {<<>>} ELSE [1..n -> JitterDraws]

-----------------------------------------------------------------------------
(* buildFundingGraph (mixer.ts:58-184)                                     *)

\* Bounds of the planner inputs
MaxRecipients == 3
MaxSeconds    == 3

NUM_LAYER_1_HUBS         == 2
NUM_LAYER_2_DISTRIBUTORS == 4
txFeeLamports            == 5000

NumIntermediate == NUM_LAYER_1_HUBS + NUM_LAYER_2_DISTRIBUTORS

\* node ids: "SOURCE", "RECIPIENT_" + idx, and makeId() for the intermediates
SourceId       == <<"SOURCE", 0>>
RecipientId(i) == <<"RECIPIENT", i>>
WalletId(k)    == <<"W", k>>

\* The six makeId() results of one call (Math.random().toString(36), 8 digits),
\* one per intermediate wallet. Ids are only ever compared for equality, so a
\* draw is given by which wallets share an id; the draws here are the pairwise
\* distinct ones.
MakeIdDraws == { [k \in 1..NumIntermediate |-> WalletId(k)] }

\* intermediateWallets.slice(0, NUM_LAYER_1_HUBS) / .slice(NUM_LAYER_1_HUBS), as indices
hubs         == [k \in 1..NUM_LAYER_1_HUBS |-> k]
distributors == [k \in 1..NUM_LAYER_2_DISTRIBUTORS |-> NUM_LAYER_1_HUBS + k]

\* nodes: [sourceNode, ...intermediateWallets, ...recipientNodes]
GraphNodes(R, ids) ==
    <<[id |-> SourceId, keypair |-> TRUE, label |-> "Source"]>>
    \o [k \in 1..NumIntermediate |->
          [id |-> ids[k], keypair |-> TRUE,
           label |-> IF k <= NUM_LAYER_1_HUBS THEN "Hub" ELSE "Distributor"]]
    \o [i \in 1..R |-> [id |-> RecipientId(i - 1), keypair |-> FALSE, label |-> "Bot Wallet"]]

TotalFees(R)       == (NUM_LAYER_1_HUBS + NUM_LAYER_2_DISTRIBUTORS + R) * txFeeLamports
TotalRent(rent)    == (NUM_LAYER_1_HUBS + NUM_LAYER_2_DISTRIBUTORS) * rent
TotalCost(R, rent) == TotalFees(R) + TotalRent(rent)

\* distributorRecipientAssignments[distId]: the recipients i (0-based) pushed under
\* that id, recipient i going to distributors[i % NUM_LAYER_2_DISTRIBUTORS]
DistributorRecipientAssignments(distId, R, ids, amounts) ==
    LET all == [k \in 1..R |-> [node |-> k - 1, amount |-> amounts[k]]]
    IN  SelectSeq(all, LAMBDA r :
            ids[distributors[(r.node % NUM_LAYER_2_DISTRIBUTORS) + 1]] = distId)

\* hubDistributorAssignments[hubId]: distributor i goes to hubs[i % NUM_LAYER_1_HUBS]
HubDistributorAssignments(hubId, ids) ==
    SelectSeq(distributors, LAMBDA d :
        ids[hubs[((d - NUM_LAYER_1_HUBS - 1) % NUM_LAYER_1_HUBS) + 1]] = hubId)

AssignedAmounts(assigned) == RSum(MapSeq(assigned, LAMBDA r : r.amount))

\* stage 2: totalForRecipients + feesForNextStage
AmountToFundDistributor(dist, R, rent, ids, amounts) ==
    LET assignedRecipients == DistributorRecipientAssignments(ids[dist], R, ids, amounts)
        totalForRecipients == AssignedAmounts(assignedRecipients)
        feesForNextStage   == Len(assignedRecipients) * txFeeLamports
    IN  RAdd(totalForRecipients, RInt(feesForNextStage))

\* stage 1: fees for the hub's transfers, and for each of its distributors the
\* rent, the fees of its final transfers and the final amounts
AmountToFundHub(hub, R, rent, ids, amounts) ==
    LET dists == HubDistributorAssignments(ids[hub], ids)
        perDist(d) ==
            LET assignedRecipients == DistributorRecipientAssignments(ids[d], R, ids, amounts)
            IN  RAdd(RInt(rent + Len(assignedRecipients) * txFeeLamports),
                     AssignedAmounts(assignedRecipients))
    IN  RAdd(RInt(Len(dists) * txFeeLamports), RSum(MapSeq(dists, perDist)))

RECURSIVE Concat(_)
Concat(ss) == IF ss = <<>> THEN <<>> ELSE Head(ss) \o Concat(Tail(ss))

\* an edge before its sendTime is drawn; stage is the loop that pushes it
Proto(from, to, amount, stage) ==
    [from |-> from, to |-> to, amount |-> amount, stage |-> stage]

Stage1Edges(R, rent, ids, amounts) ==
    Concat([h \in 1..Len(hubs) |->
        LET amountToFundHub == AmountToFundHub(hubs[h], R, rent, ids, amounts)
        IN  IF RLt(RInt(0), amountToFundHub)
            THEN <<Proto(SourceId, ids[hubs[h]], amountToFundHub, 1)>>
            ELSE <<>>])

Stage2Edges(R, rent, ids, amounts) ==
    Concat([h \in 1..Len(hubs) |->
        LET dists == HubDistributorAssignments(ids[hubs[h]], ids)
        IN  Concat([j \in 1..Len(dists) |->
                LET amountToFundDistributor ==
                        AmountToFundDistributor(dists[j], R, rent, ids, amounts)
                IN  IF RLt(RInt(0), amountToFundDistributor)
                    THEN <<Proto(ids[hubs[h]], ids[dists[j]], amountToFundDistributor, 2)>>
                    ELSE <<>>])])

Stage3Edges(R, rent, ids, amounts) ==
    Concat([d \in 1..Len(distributors) |->
        LET assigned == DistributorRecipientAssignments(ids[distributors[d]], R, ids, amounts)
        IN  [j \in 1..Len(assigned) |->
                Proto(ids[distributors[d]], RecipientId(assigned[j].node),
                      assigned[j].amount, 3)]])

\* the values Math.ceil(lo + Math.random() * width) would take
CeilDraws(loTenths, widthTenths) ==
    ((loTenths + 9) \div 10)..((loTenths + widthTenths + 9) \div 10)

\* the values Math.floor(lo + Math.random() * width) takes, lo and width in
\* tenths of a second, Math.random() in [0, 1)
FloorDraws(loTenths, widthTenths) ==
    IF widthTenths = 0 THEN {loTenths \div 10}
    ELSE (loTenths \div 10)..(((loTenths + widthTenths + 9) \div 10) - 1)

\* sendTime of a stage: floor(random*T*0.2), floor(T*0.2 + random*T*0.3),
\* floor(T*0.5 + random*T*0.5)
SendTimeDraws(stage, T) ==
    CASE stage = 1 -> FloorDraws(0, 2 * T)
      [] stage = 2 -> FloorDraws(2 * T, 3 * T)
      [] stage = 3 -> FloorDraws(5 * T, 5 * T)

\* every way of drawing the sendTimes of the pushed edges
RECURSIVE TimedEdges(_, _)
TimedEdges(protos, T) ==
    IF protos = <<>> THEN {<<>>}
    ELSE LET p == Head(protos)
         IN  { <<[from |-> p.from, to |-> p.to, amount |-> p.amount, sendTime |-> t]>> \o rest :
                 t \in SendTimeDraws(p.stage, T), rest \in TimedEdges(Tail(protos), T) }

\* a sort that puts e before the edges of its own sendTime
RECURSIVE InsertBeforeTies(_, _)
InsertBeforeTies(e, sorted) ==
    IF sorted = <<>> THEN <<e>>
    ELSE IF Head(sorted).sendTime < e.sendTime
         THEN <<Head(sorted)>> \o InsertBeforeTies(e, Tail(sorted))
         ELSE <<e>> \o sorted

\* Array.prototype.sort is stable: e goes after the edges whose sendTime is <= its own
RECURSIVE InsertBySendTime(_, _)
InsertBySendTime(e, sorted) ==
    IF sorted = <<>> THEN <<e>>
    ELSE IF Head(sorted).sendTime <= e.sendTime
         THEN <<Head(sorted)>> \o InsertBySendTime(e, Tail(sorted))
         ELSE <<e>> \o sorted

RECURSIVE StableSort(_)
StableSort(es) ==
    IF es = <<>> THEN <<>>
    ELSE InsertBySendTime(es[Len(es)], StableSort(SubSeq(es, 1, Len(es) - 1)))

\* the edges returned in the order the three stages pushed them
SortEdgesDropped(es) == es

\* edges.sort((a, b) => a.sendTime - b.sendTime)
SortEdges(es) == StableSort(es)

\* the cost check counting one transaction too many
InsufficientFundsExtraFee(totalSol, R, rent) == totalSol <= TotalCost(R, rent) + txFeeLamports

\* if (totalSol <= totalCost) throw
InsufficientFunds(totalSol, R, rent) == totalSol <= TotalCost(R, rent)

\* the stage 3 loop stopping one recipient short
PushedEdgesLastDropped(R, rent, ids, amounts) ==
    LET stage3 == Stage3Edges(R, rent, ids, amounts)
    IN  Stage1Edges(R, rent, ids, amounts) \o Stage2Edges(R, rent, ids, amounts)
        \o SubSeq(stage3, 1, Len(stage3) - 1)

\* the edges in push order: stage 1, stage 2, stage 3
PushedEdges(R, rent, ids, amounts) ==
    Stage1Edges(R, rent, ids, amounts) \o Stage2Edges(R, rent, ids, amounts)
    \o Stage3Edges(R, rent, ids, amounts)

NoGraph == [nodes |-> <<>>, edges |-> <<>>]

NoArgs == [R |-> 0, totalSol |-> 0, rent |-> 0, T |-> 0, rentOk |-> TRUE]

GraphIdle ==
    /\ gArgs = NoArgs
    /\ gRes = "none"
    /\ gGraph = NoGraph

ExecIdle ==
    /\ rev = 0
    /\ pc = "idle"
    /\ plan = <<>>
    /\ idx = 1
    /\ now = 0
    /\ startTime = 0
    /\ inflight = {}
    /\ calls = <<>>
    /\ log = <<>>
    /\ running = FALSE

SessionIdle ==
    /\ store = 0
    /\ gen = 0
    /\ depositWallet = 0
    /\ planNodes = <<>>
    /\ totalSwept = 0
    /\ funded = {}

PollIdle ==
    /\ waitingForDeposit = FALSE
    /\ interval = FALSE
    /\ queries = 0
    /\ pending = 0
    /\ active = 0
    /\ lastError = FALSE

\* amountToSend / LAMPORTS_PER_SOL: lamports as SOL, an exact rational
LamportsPerSol == 1000000000
SolOfLamports(l) == <<l, LamportsPerSol>>

NoSweepArgs == [balance |-> 0, balOk |-> TRUE, txOk |-> TRUE]
NoSweepOut ==
    [called |-> FALSE, threw |-> FALSE, transfers |-> <<>>, signature |-> "",
     amount |-> SolOfLamports(0)]

SweepSolIdle ==
    /\ swArgs = NoSweepArgs
    /\ swOut = NoSweepOut

NoSplit == [called |-> FALSE, shares |-> <<>>, jitter |-> <<>>]

SplitIdle ==
    /\ sTotal = 0
    /\ sN = 0
    /\ sOut = NoSplit

\* totals in lamports: -1, 0 and multiples of 1000 up to MaxTotal * 1000
SplitTotals == {-1, 0} \cup {1000 * k : k \in 1..MaxTotal} \cup {7}

SplitInit ==
    /\ sTotal \in SplitTotals
    /\ sN \in -1..MaxN
    /\ sOut = NoSplit
    /\ GraphIdle
    /\ ExecIdle
    /\ SessionIdle
    /\ SweepSolIdle
    /\ PollIdle

CallRandomSplit ==
    /\ ~sOut.called
    /\ \E jit \in JitterSeqs(sTotal, sN) :
          sOut' = [called |-> TRUE, shares |-> RandomSplit(sTotal, sN, jit), jitter |-> jit]
    /\ UNCHANGED <<sTotal, sN, graphVars, execVars, sessionVars, sweepSolVars, pollVars>>

SplitNext == CallRandomSplit

SpecSplit == SplitInit /\ [][SplitNext]_vars

-----------------------------------------------------------------------------
(* One buildFundingGraph call on arguments drawn around the cost boundary.  *)

\* getMinimumBalanceForRentExemption(0) results, lamports
RentDraws == {0, 1000}

\* totalSol relative to totalCost, lamports
TotalSolOffsets == {-1, 0, 1, 6000}

GraphInit ==
    /\ \E R \in 1..MaxRecipients, rent \in RentDraws, off \in TotalSolOffsets,
          T \in 0..MaxSeconds, ok \in BOOLEAN :
          gArgs = [R |-> R, totalSol |-> TotalCost(R, rent) + off, rent |-> rent,
                   T |-> T, rentOk |-> ok]
    /\ gRes = "none"
    /\ gGraph = NoGraph
    /\ SplitIdle
    /\ ExecIdle
    /\ SessionIdle
    /\ SweepSolIdle
    /\ PollIdle

\* await connection.getMinimumBalanceForRentExemption(0) throws
BuildRentQueryFails ==
    /\ gRes = "none"
    /\ ~gArgs.rentOk
    /\ gRes' = "rentfail"
    /\ UNCHANGED <<gArgs, gGraph, splitVars, execVars, sessionVars, sweepSolVars, pollVars>>

\* throw new Error("Deposit ... is not enough ...")
BuildInsufficient ==
    /\ gRes = "none"
    /\ gArgs.rentOk
    /\ InsufficientFunds(gArgs.totalSol, gArgs.R, gArgs.rent)
    /\ gRes' = "insufficient"
    /\ UNCHANGED <<gArgs, gGraph, splitVars, execVars, sessionVars, sweepSolVars, pollVars>>

\* the call returns a graph
BuildReturns ==
    /\ gRes = "none"
    /\ gArgs.rentOk
    /\ ~InsufficientFunds(gArgs.totalSol, gArgs.R, gArgs.rent)
    /\ LET amountToDistribute == gArgs.totalSol - TotalCost(gArgs.R, gArgs.rent)
       IN  \E ids \in MakeIdDraws, jit \in JitterSeqs(amountToDistribute, gArgs.R) :
             LET recipientAmounts == RandomSplit(amountToDistribute, gArgs.R, jit)
             IN  \E edges \in TimedEdges(
                       PushedEdges(gArgs.R, gArgs.rent, ids, recipientAmounts), gArgs.T) :
                   gGraph' = [nodes |-> GraphNodes(gArgs.R, ids), edges |-> SortEdges(edges)]
    /\ gRes' = "graph"
    /\ UNCHANGED <<gArgs, splitVars, execVars, sessionVars, sweepSolVars, pollVars>>

GraphNext == BuildRentQueryFails \/ BuildInsufficient \/ BuildReturns

SpecGraph == GraphInit /\ [][GraphNext]_vars

\* One buildFundingGraph call whose makeId() results may coincide. A draw is
\* given by which wallets share an id: the first wallet has id 1 and each
\* later one an id already drawn or the next new one.
MakeIdDrawsAny ==
    { [k \in 1..NumIntermediate |-> WalletId(f[k])] :
        f \in { g \in [1..NumIntermediate -> 1..NumIntermediate] :
                  /\ g[1] = 1
                  /\ \A k \in 2..NumIntermediate :
                        \E j \in 1..(k - 1) : g[k] <= g[j] + 1 } }

GraphIdsInit ==
    /\ \E R \in 1..MaxRecipients, rent \in RentDraws, off \in {1, 6000} :
          gArgs = [R |-> R, totalSol |-> TotalCost(R, rent) + off, rent |-> rent,
                   T |-> 0, rentOk |-> TRUE]
    /\ gRes = "none"
    /\ gGraph = NoGraph
    /\ SplitIdle
    /\ ExecIdle
    /\ SessionIdle
    /\ SweepSolIdle
    /\ PollIdle

\* the call returns a graph, whatever ids makeId() has drawn
BuildReturnsAnyIds ==
    /\ gRes = "none"
    /\ LET amountToDistribute == gArgs.totalSol - TotalCost(gArgs.R, gArgs.rent)
       IN  \E ids \in MakeIdDrawsAny, jit \in JitterSeqs(amountToDistribute, gArgs.R) :
             LET recipientAmounts == RandomSplit(amountToDistribute, gArgs.R, jit)
             IN  \E edges \in TimedEdges(
                       PushedEdges(gArgs.R, gArgs.rent, ids, recipientAmounts), gArgs.T) :
                   gGraph' = [nodes |-> GraphNodes(gArgs.R, ids), edges |-> SortEdges(edges)]
    /\ gRes' = "graph"
    /\ UNCHANGED <<gArgs, splitVars, execVars, sessionVars, sweepSolVars, pollVars>>

GraphIdsNext == BuildReturnsAnyIds

SpecGraphIds == GraphIdsInit /\ [][GraphIdsNext]_vars

\* One buildFundingGraph call for the page's 6 recipients, on a deposit well
\* above totalCost and with the rent query answered.
Graph6Init ==
    /\ \E rent \in RentDraws, off \in {6000, 120000}, T \in {0, 2} :
          gArgs = [R |-> 6, totalSol |-> TotalCost(6, rent) + off, rent |-> rent,
                   T |-> T, rentOk |-> TRUE]
    /\ gRes = "none"
    /\ gGraph = NoGraph
    /\ SplitIdle
    /\ ExecIdle
    /\ SessionIdle
    /\ SweepSolIdle
    /\ PollIdle

Graph6Next == BuildReturns

SpecGraph6 == Graph6Init /\ [][Graph6Next]_vars

-----------------------------------------------------------------------------
(* runMixing: one execution, in each revision of the page                   *)
(*   rev 0: part_000:65-130    rev 1: part_001:108-204                     *)
(*   rev 2: part_002:66-159 (and its copy at part_002:328-421)            *)

\* Bound on the number of edges of an executed plan
MaxEdges == 3

Revisions == {0, 1, 2}

\* scheduled offsets (sendTime, seconds) an executed plan's edges carry
ExecSendTimes == {0, 2}

\* the clock is followed up to one second past the last offset
ClockLimit == (CHOOSE m \in ExecSendTimes : \A t \in ExecSendTimes : t <= m) + 1

\* An edge as the executor reads it: its kind, whether its amount (a swap's
\* amountInLamports) is zero, whether walletMap holds a key for step.from and
\* whether g.nodes holds step.to, and its sendTime.
Step(type, zero, fromKey, toNode) ==
    [type |-> type, zero |-> zero, fromKey |-> fromKey, toNode |-> toNode]

\* rev 0 reads no step.type: its plans are the transfers of mixer.ts
StepShapes(r) ==
    {Step("sol-transfer", FALSE, TRUE, TRUE),
     Step("sol-transfer", FALSE, FALSE, TRUE),
     Step("sol-transfer", FALSE, TRUE, FALSE)}
    \cup (IF r = 0 THEN {}
          ELSE {Step("swap", FALSE, TRUE, TRUE),
                Step("swap", TRUE, TRUE, TRUE),
                Step("token-transfer", FALSE, TRUE, TRUE)})
    \cup (IF r = 2 THEN {Step("sol-transfer", TRUE, TRUE, TRUE)} ELSE {})

\* the plans of n edges whose sendTimes are ascending from minT on
RECURSIVE PlansOfLen(_, _, _)
PlansOfLen(r, n, minT) ==
    IF n = 0 THEN {<<>>}
    ELSE UNION {
           { <<[type |-> sh.type, zero |-> sh.zero, fromKey |-> sh.fromKey,
                toNode |-> sh.toNode, sendTime |-> t]>> \o rest :
               sh \in StepShapes(r), rest \in PlansOfLen(r, n - 1, t) } :
           t \in {u \in ExecSendTimes : u >= minT} }

\* the plans buildFundingGraph may hand the executor: sorted by sendTime
ExecPlans(r) == UNION { PlansOfLen(r, n, 0) : n \in 1..MaxEdges }

LogEntry(tag, edge) == [tag |-> tag, edge |-> edge]
Call(edge, op)      == [edge |-> edge, op |-> op]

\* if (!fromWallet || !toNode)
Unexecutable(e) == ~e.fromKey \/ ~e.toNode

\* every kind dispatched to sendSol
OpForAlwaysSendSol(r, e) == "sendSol"

\* the external operation the try block calls first for an executable edge;
\* "none" where the switch breaks without a call
OpFor(r, e) ==
    IF r = 0 THEN "sendSol"
    ELSE CASE e.type = "sol-transfer" ->
                IF r = 2 /\ e.zero THEN "sweepSol" ELSE "sendSol"
           [] e.type = "swap" ->
                IF ~e.zero THEN "executeSwap"
                ELSE IF r = 2 THEN "getTokenAccountBalance" ELSE "none"
           [] e.type = "token-transfer" -> "sendSplToken"

\* the flow going on to the next edge without awaiting the call it started
AfterCallNoAwait(i) == [pc |-> "loop", idx |-> i + 1]

\* await <external call>: the flow is suspended at edge i until the call settles
AfterCall(i) == [pc |-> "await", idx |-> i]

\* a failed call logged and the loop going on to the next edge
AfterFailureContinue(i) == [pc |-> "loop", idx |-> i + 1, running |-> TRUE]

\* the halt leaving the running flag set
AfterFailureStillRunning(i) == [pc |-> "halted", idx |-> i, running |-> TRUE]

\* catch (err) { ...Halting; setRunning(false); return; }
AfterFailure(i) == [pc |-> "halted", idx |-> i, running |-> FALSE]

ExecInit ==
    /\ rev \in Revisions
    /\ pc = "idle"
    /\ plan = <<>>
    /\ idx = 1
    /\ now = 0
    /\ startTime = 0
    /\ inflight = {}
    /\ calls = <<>>
    /\ log = <<>>
    /\ running = FALSE
    /\ SplitIdle
    /\ GraphIdle
    /\ SessionIdle
    /\ SweepSolIdle
    /\ PollIdle

\* rev 1: const currentBalance = await refreshBalance()
RunMixingRefresh ==
    /\ pc = "idle" /\ rev = 1
    /\ pc' = "balance"
    /\ UNCHANGED <<rev, plan, idx, now, startTime, inflight, calls, log, running>>

\* rev 1: currentBalance < amountToMix
RunMixingLowBalance ==
    /\ pc = "balance"
    /\ log' = Append(log, LogEntry("insufficient-balance", 0))
    /\ pc' = "returned"
    /\ UNCHANGED <<rev, plan, idx, now, startTime, inflight, calls, running>>

Entered == (pc = "idle" /\ rev # 1) \/ pc = "balance"

\* setRunning(true); the recipient list fails its check
RunMixingBadRecipients ==
    /\ Entered
    /\ log' = log \o <<LogEntry("building", 0), LogEntry("recipients-error", 0)>>
    /\ running' = FALSE
    /\ pc' = "returned"
    /\ UNCHANGED <<rev, plan, idx, now, startTime, inflight, calls>>

\* setRunning(true); startTime = performance.now(); await buildFundingGraph(...)
RunMixingPlans ==
    /\ Entered
    /\ running' = TRUE
    /\ log' = Append(log, LogEntry("building", 0))
    /\ startTime' = now
    /\ pc' = "planning"
    /\ UNCHANGED <<rev, plan, idx, now, inflight, calls>>

\* the planning failure logged and buildFundingGraph awaited once more
AfterPlanFailureRetry == [pc |-> "planning", running |-> TRUE]

\* catch (err) { ...Critical Error building plan... } finally { setRunning(false) }
AfterPlanFailure == [pc |-> "returned", running |-> FALSE]

\* buildFundingGraph throws (the rent query rejects, or the deposit does not
\* cover the cost): outer catch, then finally
PlanThrows ==
    /\ pc = "planning"
    /\ log' = Append(log, LogEntry("critical", 0))
    /\ running' = AfterPlanFailure.running
    /\ pc' = AfterPlanFailure.pc
    /\ UNCHANGED <<rev, plan, idx, now, startTime, inflight, calls>>

\* buildFundingGraph returns g: setPlan(g), walletMap built
PlanReturns ==
    /\ pc = "planning"
    /\ \E p \in ExecPlans(rev) : plan' = p
    /\ idx' = 1
    /\ log' = Append(log, LogEntry("plan-generated", 0))
    /\ pc' = "loop"
    /\ UNCHANGED <<rev, now, startTime, inflight, calls, running>>

AtEdge == pc = "loop" /\ idx <= Len(plan)

ScheduledTime(e) == startTime + e.sendTime

\* the delay computed from the sendTime alone
DelayFromZero(e) == e.sendTime - now

\* const delay = startTime + step.sendTime * 1000 - performance.now()
Delay(e) == ScheduledTime(e) - now

\* missing key or node: continue (rev 2 logs nothing)
LoopSkip ==
    /\ AtEdge
    /\ Unexecutable(plan[idx])
    /\ log' = IF rev = 2 THEN log ELSE Append(log, LogEntry("skip", idx))
    /\ idx' = idx + 1
    /\ UNCHANGED <<rev, pc, plan, now, startTime, inflight, calls, running>>

\* delay > 0: await new Promise(res => setTimeout(res, delay))
LoopWait ==
    /\ AtEdge
    /\ ~Unexecutable(plan[idx])
    /\ Delay(plan[idx]) > 0
    /\ log' = Append(log, LogEntry("waiting", idx))
    /\ pc' = "sleep"
    /\ UNCHANGED <<rev, plan, idx, now, startTime, inflight, calls, running>>

\* the timer set for delay fires, no earlier than delay after it was set
TimerFires ==
    /\ pc = "sleep"
    /\ Delay(plan[idx]) <= 0
    /\ pc' = "try"
    /\ UNCHANGED <<rev, plan, idx, now, startTime, inflight, calls, log, running>>

\* delay <= 0: straight into the try block
LoopNoWait ==
    /\ AtEdge
    /\ ~Unexecutable(plan[idx])
    /\ Delay(plan[idx]) <= 0
    /\ pc' = "try"
    /\ UNCHANGED <<rev, plan, idx, now, startTime, inflight, calls, log, running>>

StartCall(op) ==
    /\ calls' = Append(calls, Call(idx, op))
    /\ inflight' = inflight \cup {Call(idx, op)}
    /\ pc' = AfterCall(idx).pc
    /\ idx' = AfterCall(idx).idx

\* the try block up to its first awaited call
Dispatch ==
    /\ pc = "try"
    /\ OpFor(rev, plan[idx]) # "none"
    /\ log' = Append(log, LogEntry("sending", idx))
    /\ StartCall(OpFor(rev, plan[idx]))
    /\ UNCHANGED <<rev, plan, now, startTime, running>>

\* rev 1, swap with amountIn zero: "Skipping swap, no input amount", break
SwapSkipped ==
    /\ pc = "try"
    /\ OpFor(rev, plan[idx]) = "none"
    /\ log' = log \o <<LogEntry("sending", idx), LogEntry("swap-skip", idx)>>
    /\ idx' = idx + 1
    /\ pc' = "loop"
    /\ UNCHANGED <<rev, plan, now, startTime, inflight, calls, running>>

ValueOps == {"sendSol", "sweepSol", "executeSwap", "sendSplToken"}

\* the awaited transfer, sweep, swap or token transfer resolves
CallSucceeds ==
    /\ pc = "await"
    /\ \E c \in inflight :
          /\ c.edge = idx /\ c.op \in ValueOps
          /\ inflight' = inflight \ {c}
    /\ log' = Append(log, LogEntry("ok", idx))
    /\ idx' = idx + 1
    /\ pc' = "loop"
    /\ UNCHANGED <<rev, plan, now, startTime, calls, running>>

\* rev 2: the token balance read for a swap with amountIn zero is zero too
BalanceZero ==
    /\ pc = "await"
    /\ \E c \in inflight :
          /\ c.edge = idx /\ c.op = "getTokenAccountBalance"
          /\ inflight' = inflight \ {c}
    /\ log' = Append(log, LogEntry("swap-skip", idx))
    /\ idx' = idx + 1
    /\ pc' = "loop"
    /\ UNCHANGED <<rev, plan, now, startTime, calls, running>>

\* rev 2: the token balance is positive: executeSwap with it
BalancePositive ==
    /\ pc = "await"
    /\ \E c \in inflight :
          /\ c.edge = idx /\ c.op = "getTokenAccountBalance"
          /\ calls' = Append(calls, Call(idx, "executeSwap"))
          /\ inflight' = (inflight \ {c}) \cup {Call(idx, "executeSwap")}
    /\ pc' = AfterCall(idx).pc
    /\ idx' = AfterCall(idx).idx
    /\ UNCHANGED <<rev, plan, now, startTime, log, running>>

\* the awaited call rejects: inner catch, then the outer finally
CallFails ==
    /\ pc = "await"
    /\ \E c \in inflight :
          /\ c.edge = idx
          /\ inflight' = inflight \ {c}
    /\ log' = Append(log, LogEntry("halt", idx))
    /\ pc' = AfterFailure(idx).pc
    /\ idx' = AfterFailure(idx).idx
    /\ running' = AfterFailure(idx).running
    /\ UNCHANGED <<rev, plan, now, startTime, calls>>

\* the loop is through: "All mixing complete", finally
Complete ==
    /\ pc = "loop" /\ idx > Len(plan)
    /\ log' = Append(log, LogEntry("complete", 0))
    /\ running' = FALSE
    /\ pc' = "done"
    /\ UNCHANGED <<rev, plan, idx, now, startTime, inflight, calls>>

\* time passes while the flow is suspended
Tick ==
    /\ pc \in {"balance", "planning", "sleep", "await"}
    /\ now < ClockLimit
    /\ now' = now + 1
    /\ UNCHANGED <<rev, pc, plan, idx, startTime, inflight, calls, log, running>>

ExecNext ==
    \/ (RunMixingRefresh /\ UNCHANGED <<splitVars, graphVars, sessionVars, sweepSolVars, pollVars>>)
    \/ (RunMixingLowBalance /\ UNCHANGED <<splitVars, graphVars, sessionVars, sweepSolVars, pollVars>>)
    \/ (RunMixingBadRecipients /\ UNCHANGED <<splitVars, graphVars, sessionVars, sweepSolVars, pollVars>>)
    \/ (RunMixingPlans /\ UNCHANGED <<splitVars, graphVars, sessionVars, sweepSolVars, pollVars>>)
    \/ (PlanThrows /\ UNCHANGED <<splitVars, graphVars, sessionVars, sweepSolVars, pollVars>>)
    \/ (PlanReturns /\ UNCHANGED <<splitVars, graphVars, sessionVars, sweepSolVars, pollVars>>)
    \/ (LoopSkip /\ UNCHANGED <<splitVars, graphVars, sessionVars, sweepSolVars, pollVars>>)
    \/ (LoopWait /\ UNCHANGED <<splitVars, graphVars, sessionVars, sweepSolVars, pollVars>>)
    \/ (TimerFires /\ UNCHANGED <<splitVars, graphVars, sessionVars, sweepSolVars, pollVars>>)
    \/ (LoopNoWait /\ UNCHANGED <<splitVars, graphVars, sessionVars, sweepSolVars, pollVars>>)
    \/ (Dispatch /\ UNCHANGED <<splitVars, graphVars, sessionVars, sweepSolVars, pollVars>>)
    \/ (SwapSkipped /\ UNCHANGED <<splitVars, graphVars, sessionVars, sweepSolVars, pollVars>>)
    \/ (CallSucceeds /\ UNCHANGED <<splitVars, graphVars, sessionVars, sweepSolVars, pollVars>>)
    \/ (BalanceZero /\ UNCHANGED <<splitVars, graphVars, sessionVars, sweepSolVars, pollVars>>)
    \/ (BalancePositive /\ UNCHANGED <<splitVars, graphVars, sessionVars, sweepSolVars, pollVars>>)
    \/ (CallFails /\ UNCHANGED <<splitVars, graphVars, sessionVars, sweepSolVars, pollVars>>)
    \/ (Complete /\ UNCHANGED <<splitVars, graphVars, sessionVars, sweepSolVars, pollVars>>)
    \/ (Tick /\ UNCHANGED <<splitVars, graphVars, sessionVars, sweepSolVars, pollVars>>)

SpecExec == ExecInit /\ [][ExecNext]_vars

-----------------------------------------------------------------------------
(* sweepSol (solanaUtils.ts:47-73). Amounts in lamports.                    *)

\* Bound: the balances tried lie within MaxDelta lamports of the fee
MaxDelta == 12

\* const fee = 5000
SweepFee == 5000

\* getBalance results: an empty wallet and the balances around the fee
SweepBalances == {0} \cup ((SweepFee - MaxDelta)..(SweepFee + MaxDelta))

SweepResult(threw, transfers, signature, amount) ==
    [called |-> TRUE, threw |-> threw, transfers |-> transfers,
     signature |-> signature, amount |-> amount]

\* sweepSol sending the whole balance whenever there is one
SweepSolNoFee(balance, balOk, txOk) ==
    IF ~balOk THEN SweepResult(TRUE, <<>>, "", SolOfLamports(0))
    ELSE IF balance <= 0
         THEN SweepResult(FALSE, <<>>, "skipped-low-balance", SolOfLamports(0))
    ELSE IF ~txOk THEN SweepResult(TRUE, <<balance>>, "", SolOfLamports(0))
    ELSE SweepResult(FALSE, <<balance>>, "signature", SolOfLamports(balance))

\* sweepSol(connection, from, to) on a wallet holding `balance`: balOk and txOk
\* say whether getBalance and sendAndConfirmTransaction resolve; transfers are
\* the lamports of the SystemProgram.transfer instructions submitted
SweepSol(balance, balOk, txOk) ==
    LET amountToSend == balance - SweepFee
    IN  IF ~balOk THEN SweepResult(TRUE, <<>>, "", SolOfLamports(0))
        ELSE IF amountToSend <= 0
             THEN SweepResult(FALSE, <<>>, "skipped-low-balance", SolOfLamports(0))
        ELSE IF ~txOk THEN SweepResult(TRUE, <<amountToSend>>, "", SolOfLamports(0))
        ELSE SweepResult(FALSE, <<amountToSend>>, "signature",
                         SolOfLamports(amountToSend))

SweepSolInit ==
    /\ \E b \in SweepBalances, bo \in BOOLEAN, to \in BOOLEAN :
          swArgs = [balance |-> b, balOk |-> bo, txOk |-> to]
    /\ swOut = NoSweepOut
    /\ SplitIdle
    /\ GraphIdle
    /\ ExecIdle
    /\ SessionIdle
    /\ PollIdle

CallSweepSol ==
    /\ ~swOut.called
    /\ swOut' = SweepSol(swArgs.balance, swArgs.balOk, swArgs.txOk)
    /\ UNCHANGED <<swArgs, splitVars, graphVars, execVars, sessionVars, pollVars>>

SweepSolNext == CallSweepSol

SpecSweepSol == SweepSolInit /\ [][SweepSolNext]_vars

-----------------------------------------------------------------------------
(* A session of the page: the mount effect, runMixing, handleSweep and      *)
(* handleReset, followed for the keys they generate, the plan state, the   *)
(* wallet storage and the sweep of each wallet. Of a runMixing call the    *)
(* session holds its entry, its plan and its end; its walk over the edges  *)
(* is SpecExec.                                                             *)

\* Bounds: Keypair.generate() calls followed, and the length of the log up to
\* which a handler is still started
MaxKeypairs == 13
MaxLog      == 5

\* the recipient list of a session: the 6 addresses rev 0 insists on
SessionRecipients == 6

\* sweepSol's environment for a wallet swept: its balance at the fee or above
\* it, and the RPC calls resolving or not
SessionSweepDraws ==
    {[balance |-> SweepFee,        balOk |-> TRUE,  txOk |-> TRUE],
     [balance |-> SweepFee + 1000, balOk |-> TRUE,  txOk |-> TRUE],
     [balance |-> SweepFee + 1000, balOk |-> TRUE,  txOk |-> FALSE],
     [balance |-> SweepFee + 1000, balOk |-> FALSE, txOk |-> TRUE]}

\* g.nodes with the intermediate wallets holding the first keys ever generated
SessionNodesKeysReused(R, src, base) ==
    LET g == GraphNodes(R, [k \in 1..NumIntermediate |-> WalletId(k)])
    IN  [k \in 1..Len(g) |->
            [g[k] EXCEPT !.keypair =
                IF g[k].label = "Source" THEN src
                ELSE IF g[k].keypair THEN k - 1 ELSE 0]]

\* g.nodes with the keys behind them: sourceKeypair for the source, a key
\* generated by this call for each intermediate wallet, none for a recipient
SessionNodes(R, src, base) ==
    LET g == GraphNodes(R, [k \in 1..NumIntermediate |-> WalletId(k)])
    IN  [k \in 1..Len(g) |->
            [g[k] EXCEPT !.keypair =
                IF g[k].label = "Source" THEN src
                ELSE IF g[k].keypair THEN base + k - 1 ELSE 0]]

\* the keys of the hubs and distributors of plan.nodes
IntermediateKeys(nodes) ==
    { nodes[k].keypair : k \in { j \in 1..Len(nodes) : nodes[j].label \in {"Hub", "Distributor"} } }

\* the keys of the hubs of plan.nodes, and the key of the first of them
HubKeys(nodes) ==
    { nodes[k].keypair : k \in { j \in 1..Len(nodes) : nodes[j].label = "Hub" } }
FirstHubKey(nodes) ==
    nodes[CHOOSE k \in 1..Len(nodes) :
            /\ nodes[k].label = "Hub"
            /\ \A j \in 1..(k - 1) : nodes[j].label # "Hub"].keypair

SessionInit ==
    /\ rev \in Revisions
    /\ pc = "unmounted"
    /\ store \in {0, 1}
    /\ gen = store
    /\ depositWallet = 0
    /\ planNodes = <<>>
    /\ totalSwept = 0
    /\ funded = {}
    /\ plan = <<>> /\ idx = 1 /\ now = 0 /\ startTime = 0 /\ inflight = {}
    /\ calls = <<>> /\ log = <<>> /\ running = FALSE
    /\ SplitIdle
    /\ GraphIdle
    /\ SweepSolIdle
    /\ PollIdle

\* mount: a saved key is found and loaded
MountLoads ==
    /\ pc = "unmounted" /\ store # 0
    /\ depositWallet' = store
    /\ log' = Append(log, LogEntry("wallet-loaded", 0))
    /\ pc' = "ready"
    /\ UNCHANGED <<store, gen, planNodes, totalSwept, funded, rev, idx, calls, running>>

\* mount: no saved key: a new wallet is generated and its key stored
MountGenerates ==
    /\ pc = "unmounted" /\ store = 0
    /\ gen < MaxKeypairs
    /\ gen' = gen + 1
    /\ store' = gen'
    /\ depositWallet' = gen'
    /\ log' = Append(log, LogEntry("wallet-generated", 0))
    /\ pc' = "ready"
    /\ UNCHANGED <<planNodes, totalSwept, funded, rev, idx, calls, running>>

\* mount: localStorage or the saved key throws: catch, a temporary wallet;
\* when it is setItem that throws, the wallet generated before it is dropped
MountTemporary ==
    /\ pc = "unmounted"
    /\ \E n \in (IF store = 0 THEN {1, 2} ELSE {1}) :
          /\ gen + n <= MaxKeypairs
          /\ gen' = gen + n
    /\ depositWallet' = gen'
    /\ log' = Append(log, LogEntry("wallet-temporary", 0))
    /\ pc' = "ready"
    /\ UNCHANGED <<store, planNodes, totalSwept, funded, rev, idx, calls, running>>

\* a handler can be started: nothing is running and the buttons are enabled
Ready == pc = "ready" /\ ~running /\ Len(log) < MaxLog

\* runMixing returning before buildFundingGraph: the recipient list is refused
SessionRunRefused ==
    /\ Ready
    /\ log' = log \o <<LogEntry("building", 0), LogEntry("recipients-error", 0)>>
    /\ UNCHANGED <<sessionVars, rev, pc, idx, calls, running>>

\* buildFundingGraph throws (rent query, insufficient funds) after generating
\* its intermediate wallets: no plan is set
SessionPlanThrows ==
    /\ Ready
    /\ gen + NumIntermediate <= MaxKeypairs
    /\ gen' = gen + NumIntermediate
    /\ log' = log \o <<LogEntry("building", 0), LogEntry("critical", 0)>>
    /\ UNCHANGED <<store, depositWallet, planNodes, totalSwept, funded, rev, pc, idx, calls, running>>

\* setRunning(true); g = await buildFundingGraph(...); setPlan(g)
SessionRunBuilds ==
    /\ Ready
    /\ gen + NumIntermediate <= MaxKeypairs
    /\ gen' = gen + NumIntermediate
    /\ planNodes' = SessionNodes(SessionRecipients, depositWallet, gen)
    /\ running' = TRUE
    /\ log' = log \o <<LogEntry("building", 0), LogEntry("plan-generated", 0)>>
    /\ pc' = "mixing"
    /\ UNCHANGED <<store, depositWallet, totalSwept, funded, rev, idx, calls>>

\* the walk over the edges ends: setRunning(false). Complete: every hub has
\* been paid the rent of its distributors and has passed on the rest. Halted:
\* the first dispatch failed, or a later one, the first hub already paid.
SessionRunEnds ==
    /\ pc = "mixing"
    /\ \/ /\ log' = Append(log, LogEntry("complete", 0))
          /\ funded' = funded \cup HubKeys(planNodes)
       \/ /\ log' = Append(log, LogEntry("halt", 0))
          /\ \/ funded' = funded
             \/ funded' = funded \cup {FirstHubKey(planNodes)}
    /\ running' = FALSE
    /\ pc' = "ready"
    /\ UNCHANGED <<store, gen, depositWallet, planNodes, totalSwept, rev, idx, calls>>

\* plan.nodes.filter(node => node.keypair) with the source left out
WalletsToSweepNoSource(r, nodes, dep) ==
    LET keyed == SelectSeq(nodes, LAMBDA n : n.keypair # 0 /\ n.label # "Source")
    IN  [k \in 1..Len(keyed) |-> keyed[k].keypair]

\* walletsToSweep: the keys of plan.nodes.filter(node => node.keypair), in
\* node order; rev 1 pushes depositWallet after them unless it is among them
WalletsToSweep(r, nodes, dep) ==
    LET keyed  == SelectSeq(nodes, LAMBDA n : n.keypair # 0)
        ofPlan == [k \in 1..Len(keyed) |-> keyed[k].keypair]
    IN  IF r = 1 /\ dep # 0 /\ \A k \in 1..Len(ofPlan) : ofPlan[k] # dep
        THEN Append(ofPlan, dep)
        ELSE ofPlan

\* handleSweep up to its loop, on a valid address from the prompt:
\* rev 0 and 2 need a plan, rev 1 a plan or a deposit wallet
HandleSweepStarts ==
    /\ Ready
    /\ IF rev = 1 THEN planNodes # <<>> \/ depositWallet # 0 ELSE planNodes # <<>>
    /\ running' = TRUE
    /\ log' = Append(log, LogEntry("sweeping", 0))
    /\ totalSwept' = 0
    /\ idx' = 1
    /\ pc' = "sweep"
    /\ UNCHANGED <<store, gen, depositWallet, planNodes, funded, rev, calls, sweepSolVars>>

\* if (signature && amount > 0); rev 1: if (signature.startsWith('sk') && amount > 0),
\* sk saying whether the signature returned happens to start with "sk"
Counted(r, res, sk) ==
    /\ ~res.threw
    /\ RLt(RInt(0), res.amount)
    /\ IF r = 1 THEN sk ELSE res.signature # ""

\* one turn of the loop: await sweepSol(connection, wallet, recipientPk), then
\* the total and the log entry, or the catch and its log entry
SweepWallet ==
    /\ pc = "sweep"
    /\ idx <= Len(WalletsToSweep(rev, planNodes, depositWallet))
    /\ LET wallet == WalletsToSweep(rev, planNodes, depositWallet)[idx]
       IN  \E env \in SessionSweepDraws, sk \in BOOLEAN :
             LET res == SweepSol(env.balance, env.balOk, env.txOk)
             IN  /\ swArgs' = env
                 /\ swOut' = res
                 /\ calls' = Append(calls, Call(wallet, "sweepSol"))
                 /\ totalSwept' = IF Counted(rev, res, sk) THEN totalSwept + res.amount[1]
                                  ELSE totalSwept
                 /\ log' = IF res.threw THEN Append(log, LogEntry("sweep-failed", wallet))
                           ELSE IF Counted(rev, res, sk)
                                THEN Append(log, LogEntry("swept", wallet))
                                ELSE log
                 /\ funded' = IF res.threw THEN funded ELSE funded \ {wallet}
    /\ idx' = idx + 1
    /\ UNCHANGED <<store, gen, depositWallet, planNodes, rev, pc, running>>

\* totalSwept.toFixed(5): lamports as SOL rounded to 5 decimals, in units of
\* 10^-5 SOL (10^4 lamports)
ToFixed5(lamports) == (lamports + 5000) \div 10000

\* after the loop: "Sweep complete. Total recovered", setPlan(null), setRunning(false)
SweepCompletes ==
    /\ pc = "sweep"
    /\ idx > Len(WalletsToSweep(rev, planNodes, depositWallet))
    /\ log' = Append(log, LogEntry("sweep-complete", ToFixed5(totalSwept)))
    /\ planNodes' = <<>>
    /\ running' = FALSE
    /\ pc' = "ready"
    /\ UNCHANGED <<store, gen, depositWallet, totalSwept, funded, rev, idx, calls, sweepSolVars>>

\* handleReset: the stored key is removed and the page reloaded; with it the
\* last key is gone, and keys are counted from 0 again
HandleReset ==
    /\ pc = "ready" /\ ~running
    /\ store' = 0
    /\ gen' = 0
    /\ depositWallet' = 0
    /\ planNodes' = <<>>
    /\ totalSwept' = 0
    /\ funded' = {}
    /\ idx' = 1
    /\ calls' = <<>>
    /\ log' = <<>>
    /\ swArgs' = NoSweepArgs /\ swOut' = NoSweepOut
    /\ pc' = "unmounted"
    /\ UNCHANGED <<rev, running>>

SessionNext ==
    \/ (MountLoads /\ UNCHANGED <<plan, now, startTime, inflight, splitVars, graphVars, pollVars, sweepSolVars>>)
    \/ (MountGenerates /\ UNCHANGED <<plan, now, startTime, inflight, splitVars, graphVars, pollVars, sweepSolVars>>)
    \/ (MountTemporary /\ UNCHANGED <<plan, now, startTime, inflight, splitVars, graphVars, pollVars, sweepSolVars>>)
    \/ (SessionRunRefused /\ UNCHANGED <<plan, now, startTime, inflight, splitVars, graphVars, pollVars, sweepSolVars>>)
    \/ (SessionPlanThrows /\ UNCHANGED <<plan, now, startTime, inflight, splitVars, graphVars, pollVars, sweepSolVars>>)
    \/ (SessionRunBuilds /\ UNCHANGED <<plan, now, startTime, inflight, splitVars, graphVars, pollVars, sweepSolVars>>)
    \/ (SessionRunEnds /\ UNCHANGED <<plan, now, startTime, inflight, splitVars, graphVars, pollVars, sweepSolVars>>)
    \/ (HandleSweepStarts /\ UNCHANGED <<plan, now, startTime, inflight, splitVars, graphVars, pollVars>>)
    \/ (SweepWallet /\ UNCHANGED <<plan, now, startTime, inflight, splitVars, graphVars, pollVars>>)
    \/ (SweepCompletes /\ UNCHANGED <<plan, now, startTime, inflight, splitVars, graphVars, pollVars>>)
    \/ (HandleReset /\ UNCHANGED <<plan, now, startTime, inflight, splitVars, graphVars, pollVars>>)

SpecSession == SessionInit /\ [][SessionNext]_vars

-----------------------------------------------------------------------------
(* runMixing and handleSweep to their end: one runMixing execution on a    *)
(* plan of one or two edges, or one handleSweep on the plan a completed    *)
(* run has left, with time passing until each timer is due and every step  *)
(* that can be taken eventually taken (timers fire, awaited calls settle,  *)
(* continuations run).                                                     *)

LivePlans(r) == PlansOfLen(r, 1, 0) \cup PlansOfLen(r, 2, 0)

\* buildFundingGraph returns g: setPlan(g), walletMap built
LivePlanReturns ==
    /\ pc = "planning"
    /\ \E p \in LivePlans(rev) : plan' = p
    /\ idx' = 1
    /\ log' = Append(log, LogEntry("plan-generated", 0))
    /\ pc' = "loop"
    /\ UNCHANGED <<rev, now, startTime, inflight, calls, running>>

\* time passes while the timer set for delay is not yet due
TimerTick ==
    /\ pc = "sleep"
    /\ Delay(plan[idx]) > 0
    /\ now' = now + 1
    /\ UNCHANGED <<rev, pc, plan, idx, startTime, inflight, calls, log, running>>

\* the page after its first wallet was generated and a first run completed
LiveSweepInit ==
    /\ rev \in Revisions
    /\ pc = "ready"
    /\ plan = <<>> /\ idx = 1 /\ now = 0 /\ startTime = 0 /\ inflight = {}
    /\ calls = <<>>
    /\ log = <<LogEntry("wallet-generated", 0), LogEntry("building", 0),
               LogEntry("plan-generated", 0), LogEntry("complete", 0)>>
    /\ running = FALSE
    /\ store = 1
    /\ depositWallet = 1
    /\ gen = 1 + NumIntermediate
    /\ planNodes = SessionNodes(SessionRecipients, 1, 1)
    /\ totalSwept = 0
    /\ funded = HubKeys(planNodes)
    /\ SplitIdle
    /\ GraphIdle
    /\ SweepSolIdle
    /\ PollIdle

LiveInit == ExecInit \/ LiveSweepInit

LiveNext ==
    \/ (RunMixingRefresh /\ UNCHANGED <<splitVars, graphVars, sessionVars, sweepSolVars, pollVars>>)
    \/ (RunMixingLowBalance /\ UNCHANGED <<splitVars, graphVars, sessionVars, sweepSolVars, pollVars>>)
    \/ (RunMixingBadRecipients /\ UNCHANGED <<splitVars, graphVars, sessionVars, sweepSolVars, pollVars>>)
    \/ (RunMixingPlans /\ UNCHANGED <<splitVars, graphVars, sessionVars, sweepSolVars, pollVars>>)
    \/ (PlanThrows /\ UNCHANGED <<splitVars, graphVars, sessionVars, sweepSolVars, pollVars>>)
    \/ (LivePlanReturns /\ UNCHANGED <<splitVars, graphVars, sessionVars, sweepSolVars, pollVars>>)
    \/ (LoopSkip /\ UNCHANGED <<splitVars, graphVars, sessionVars, sweepSolVars, pollVars>>)
    \/ (LoopWait /\ UNCHANGED <<splitVars, graphVars, sessionVars, sweepSolVars, pollVars>>)
    \/ (TimerTick /\ UNCHANGED <<splitVars, graphVars, sessionVars, sweepSolVars, pollVars>>)
    \/ (TimerFires /\ UNCHANGED <<splitVars, graphVars, sessionVars, sweepSolVars, pollVars>>)
    \/ (LoopNoWait /\ UNCHANGED <<splitVars, graphVars, sessionVars, sweepSolVars, pollVars>>)
    \/ (Dispatch /\ UNCHANGED <<splitVars, graphVars, sessionVars, sweepSolVars, pollVars>>)
    \/ (SwapSkipped /\ UNCHANGED <<splitVars, graphVars, sessionVars, sweepSolVars, pollVars>>)
    \/ (CallSucceeds /\ UNCHANGED <<splitVars, graphVars, sessionVars, sweepSolVars, pollVars>>)
    \/ (BalanceZero /\ UNCHANGED <<splitVars, graphVars, sessionVars, sweepSolVars, pollVars>>)
    \/ (BalancePositive /\ UNCHANGED <<splitVars, graphVars, sessionVars, sweepSolVars, pollVars>>)
    \/ (CallFails /\ UNCHANGED <<splitVars, graphVars, sessionVars, sweepSolVars, pollVars>>)
    \/ (Complete /\ UNCHANGED <<splitVars, graphVars, sessionVars, sweepSolVars, pollVars>>)
    \/ (Tick /\ UNCHANGED <<splitVars, graphVars, sessionVars, sweepSolVars, pollVars>>)
    \/ (HandleSweepStarts /\ UNCHANGED <<plan, now, startTime, inflight, splitVars, graphVars, pollVars>>)
    \/ (SweepWallet /\ UNCHANGED <<plan, now, startTime, inflight, splitVars, graphVars, pollVars>>)
    \/ (SweepCompletes /\ UNCHANGED <<plan, now, startTime, inflight, splitVars, graphVars, pollVars>>)

LiveSpec == LiveInit /\ [][LiveNext]_vars /\ WF_vars(LiveNext)

-----------------------------------------------------------------------------
(* Deposit polling and the starts of runMixing: the polling effect of rev 0 *)
(* and 2 (part_000:132-146, part_002:161-173), the Start button of rev 1   *)
(* (part_001:108-118, 343-344), and each runMixing call from its start to  *)
(* its return.                                                              *)

\* Bounds: interval callbacks followed while their balance query is out, and
\* runMixing calls followed
MaxQueries == 2
MaxRuns    == 2

\* the runMixing calls so far: pending, active, or returned with a log entry
Runs ==
    pending + active
    + Cardinality({ j \in 1..Len(log) :
                      log[j].tag \in {"insufficient-balance", "complete", "halt", "critical"} })

PollInit ==
    /\ rev \in Revisions
    /\ pc = "idle" /\ plan = <<>> /\ idx = 1 /\ now = 0 /\ startTime = 0
    /\ inflight = {} /\ calls = <<>> /\ log = <<>> /\ running = FALSE
    /\ PollIdle
    /\ SplitIdle
    /\ GraphIdle
    /\ SessionIdle
    /\ SweepSolIdle

\* rev 0, 2: the Start button (disabled={waitingForDeposit || running}) calls
\* waitForDeposit; the effect then sets the interval
WaitForDeposit ==
    /\ rev # 1
    /\ ~waitingForDeposit /\ ~running
    /\ Runs < MaxRuns
    /\ waitingForDeposit' = TRUE
    /\ interval' = TRUE
    /\ log' = Append(log, LogEntry("waiting-deposit", 0))
    /\ lastError' = FALSE
    /\ UNCHANGED <<queries, pending, active, rev, running>>

\* the interval fires: its callback calls refreshBalance() and awaits it,
\* whether or not an earlier callback is still awaiting its own
IntervalTick ==
    /\ interval
    /\ queries < MaxQueries
    /\ queries' = queries + 1
    /\ lastError' = FALSE
    /\ UNCHANGED <<waitingForDeposit, interval, pending, active, rev, running, log>>

\* a callback's balance is below minDeposit
BalanceBelow ==
    /\ queries > 0
    /\ queries' = queries - 1
    /\ lastError' = FALSE
    /\ UNCHANGED <<waitingForDeposit, interval, pending, active, rev, running, log>>

\* a callback's balance is at least minDeposit: setWaitingForDeposit(false),
\* log, clearInterval(intervalId), setTimeout(() => runMixing(bal), 500)
DepositDetected ==
    /\ queries > 0
    /\ Runs < MaxRuns
    /\ queries' = queries - 1
    /\ waitingForDeposit' = FALSE
    /\ interval' = FALSE
    /\ log' = Append(log, LogEntry("deposit-detected", 0))
    /\ pending' = pending + 1
    /\ lastError' = FALSE
    /\ UNCHANGED <<active, rev, running>>

\* a callback's getBalance rejects: refreshBalance of rev 0 and 2 has no
\* catch, and the callback's promise rejects with nobody awaiting it
BalanceQueryFails ==
    /\ queries > 0
    /\ queries' = queries - 1
    /\ lastError' = TRUE
    /\ UNCHANGED <<waitingForDeposit, interval, pending, active, rev, running, log>>

\* rev 0, 2: the 500 ms timer fires: runMixing(bal) up to buildFundingGraph
DeferredStart ==
    /\ rev # 1
    /\ pending > 0
    /\ pending' = pending - 1
    /\ active' = active + 1
    /\ running' = TRUE
    /\ log' = Append(log, LogEntry("building", 0))
    /\ lastError' = FALSE
    /\ UNCHANGED <<waitingForDeposit, interval, queries, rev>>

\* rev 1: the Start button (disabled={running}) calls runMixing, which awaits
\* refreshBalance() before anything else
StartClick ==
    /\ rev = 1
    /\ ~running
    /\ Runs < MaxRuns
    /\ pending' = pending + 1
    /\ lastError' = FALSE
    /\ UNCHANGED <<waitingForDeposit, interval, queries, active, rev, running, log>>

\* rev 1: the refresh returns a balance that covers amountToMix: setRunning(true)
RefreshCovers ==
    /\ rev = 1
    /\ pending > 0
    /\ pending' = pending - 1
    /\ active' = active + 1
    /\ running' = TRUE
    /\ log' = Append(log, LogEntry("building", 0))
    /\ lastError' = FALSE
    /\ UNCHANGED <<waitingForDeposit, interval, queries, rev>>

\* rev 1: the balance is short, or getBalance rejects and refreshBalance logs
\* it and returns 0: "Insufficient balance", return
RefreshShort ==
    /\ rev = 1
    /\ pending > 0
    /\ pending' = pending - 1
    /\ \E failed \in BOOLEAN :
          /\ lastError' = failed
          /\ log' = IF failed
                    THEN log \o <<LogEntry("balance-failed", 0),
                                  LogEntry("insufficient-balance", 0)>>
                    ELSE Append(log, LogEntry("insufficient-balance", 0))
    /\ UNCHANGED <<waitingForDeposit, interval, queries, active, rev, running>>

\* a runMixing execution returns: complete, or halted by a failed dispatch,
\* or its planning thrown; setRunning(false)
RunMixingReturns ==
    /\ active > 0
    /\ active' = active - 1
    /\ running' = FALSE
    /\ \E tag \in {"complete", "halt", "critical"} :
          /\ log' = Append(log, LogEntry(tag, 0))
          /\ lastError' = (tag # "complete")
    /\ UNCHANGED <<waitingForDeposit, interval, queries, pending, rev>>

PollNext ==
    \/ (WaitForDeposit /\ UNCHANGED <<pc, plan, idx, now, startTime, inflight, calls, splitVars, graphVars, sessionVars, sweepSolVars>>)
    \/ (IntervalTick /\ UNCHANGED <<pc, plan, idx, now, startTime, inflight, calls, splitVars, graphVars, sessionVars, sweepSolVars>>)
    \/ (BalanceBelow /\ UNCHANGED <<pc, plan, idx, now, startTime, inflight, calls, splitVars, graphVars, sessionVars, sweepSolVars>>)
    \/ (DepositDetected /\ UNCHANGED <<pc, plan, idx, now, startTime, inflight, calls, splitVars, graphVars, sessionVars, sweepSolVars>>)
    \/ (BalanceQueryFails /\ UNCHANGED <<pc, plan, idx, now, startTime, inflight, calls, splitVars, graphVars, sessionVars, sweepSolVars>>)
    \/ (DeferredStart /\ UNCHANGED <<pc, plan, idx, now, startTime, inflight, calls, splitVars, graphVars, sessionVars, sweepSolVars>>)
    \/ (StartClick /\ UNCHANGED <<pc, plan, idx, now, startTime, inflight, calls, splitVars, graphVars, sessionVars, sweepSolVars>>)
    \/ (RefreshCovers /\ UNCHANGED <<pc, plan, idx, now, startTime, inflight, calls, splitVars, graphVars, sessionVars, sweepSolVars>>)
    \/ (RefreshShort /\ UNCHANGED <<pc, plan, idx, now, startTime, inflight, calls, splitVars, graphVars, sessionVars, sweepSolVars>>)
    \/ (RunMixingReturns /\ UNCHANGED <<pc, plan, idx, now, startTime, inflight, calls, splitVars, graphVars, sessionVars, sweepSolVars>>)

SpecPoll == PollInit /\ [][PollNext]_vars

-----------------------------------------------------------------------------
(* Properties of the returned graph                                        *)

Edges == gGraph.edges
Nodes == gGraph.nodes

IsRecipientId(id) == id[1] = "RECIPIENT"

AmountsOf(es) == RSum(MapSeq(es, LAMBDA e : e.amount))
EdgesFrom(id) == SelectSeq(Edges, LAMBDA e : e.from = id)
EdgesTo(id)   == SelectSeq(Edges, LAMBDA e : e.to = id)
FinalEdges    == SelectSeq(Edges, LAMBDA e : IsRecipientId(e.to))

IntermediateIds ==
    { Nodes[k].id : k \in { j \in 1..Len(Nodes) : Nodes[j].label \in {"Hub", "Distributor"} } }
DistributorIds ==
    { Nodes[k].id : k \in { j \in 1..Len(Nodes) : Nodes[j].label = "Distributor" } }

\* outgoing amounts + one txFee per outgoing edge + one rent <= incoming amounts
ClosedAt(id) ==
    RLeq(RAdd(AmountsOf(EdgesFrom(id)),
              RInt(Len(EdgesFrom(id)) * txFeeLamports + gArgs.rent)),
         AmountsOf(EdgesTo(id)))

\* C1: in every returned graph, every hub and every distributor receives at
\* least its outgoing amounts plus one txFee per outgoing edge plus one rent.
C1_ClosureInvariant ==
    gRes = "graph" => \A id \in IntermediateIds : ClosedAt(id)

\* C2: with the rent query answered, the call throws the insufficient-funds
\* error and returns no graph exactly when totalSol <= totalFees + totalRent,
\* and returns a graph for every larger totalSol.
C2_FailsExactlyBelowCost ==
    (gRes # "none" /\ gArgs.rentOk) =>
        /\ (gRes = "insufficient") <=> (gArgs.totalSol <= TotalFees(gArgs.R) + TotalRent(gArgs.rent))
        /\ gRes = "insufficient" => gGraph = NoGraph
        /\ gArgs.totalSol > TotalFees(gArgs.R) + TotalRent(gArgs.rent)
              => (gRes = "graph" /\ Edges # <<>>)

\* C2 witness: the call has thrown at totalSol = totalCost exactly
C2_Witness ==
    /\ gRes = "insufficient"
    /\ gArgs.totalSol = TotalCost(gArgs.R, gArgs.rent)
    /\ gArgs.rent > 0

\* C5: the edges of every returned graph are in ascending sendTime order.
C5_EdgesSortedBySendTime ==
    gRes = "graph" =>
        \A i, j \in 1..Len(Edges) : i < j => Edges[i].sendTime <= Edges[j].sendTime

\* C5 witness: a returned graph in which the sort moved edges: the edge to a
\* later recipient, pushed later, stands before the edge to an earlier one
C5_Witness ==
    /\ gRes = "graph"
    /\ \E i, j \in 1..Len(Edges) :
          /\ i < j
          /\ IsRecipientId(Edges[i].to) /\ IsRecipientId(Edges[j].to)
          /\ Edges[i].to[2] > Edges[j].to[2]
          /\ Edges[i].sendTime < Edges[j].sendTime

\* C6: every recipient is the `to` of exactly one distributor->recipient edge
\* and the final fan-out amounts sum to totalSol - totalCost.
C6_RecipientsPaidOnce ==
    gRes = "graph" =>
        /\ \A i \in 0..(gArgs.R - 1) :
              /\ Len(EdgesTo(RecipientId(i))) = 1
              /\ EdgesTo(RecipientId(i))[1].from \in DistributorIds
        /\ AmountsOf(FinalEdges) = RInt(gArgs.totalSol - TotalCost(gArgs.R, gArgs.rent))

\* C6 witness: a graph for several recipients with unequal final amounts
C6_Witness ==
    /\ gRes = "graph"
    /\ gArgs.R >= 3
    /\ Len(FinalEdges) = gArgs.R
    /\ \E i, j \in 1..Len(FinalEdges) : RLt(FinalEdges[i].amount, FinalEdges[j].amount)

\* the fees and rent the plan carries: one txFee per edge, one rent per
\* intermediate wallet
FeesAndRentOf(es) == Len(es) * txFeeLamports + NumIntermediate * gArgs.rent

-----------------------------------------------------------------------------
(* Properties of one runMixing execution                                   *)

LogEdges(tag) == { log[j].edge : j \in { k \in 1..Len(log) : log[k].tag = tag } }
CallsOf(i)    == { j \in 1..Len(calls) : calls[j].edge = i }
ValueCallsOf(i) == { j \in CallsOf(i) : calls[j].op \in ValueOps }

\* passed over without a call: missing key or node, or a swap logged as skipped
Skipped(i) == Unexecutable(plan[i]) \/ i \in LogEdges("swap-skip")

\* C3: once the external operation of edge k has failed, the execution has
\* halted: no edge after k is ever dispatched, exactly the non-skipped edges
\* before k have reported success, and each operation of edge k was called once.
C3_HaltOnFirstFailure ==
    \A k \in LogEdges("halt") :
        /\ pc = "halted" /\ ~running
        /\ \A j \in 1..Len(calls) : calls[j].edge <= k
        /\ LogEdges("ok") = { i \in 1..(k - 1) : ~Skipped(i) }
        /\ \A j1, j2 \in CallsOf(k) : calls[j1].op = calls[j2].op => j1 = j2
        /\ Cardinality(ValueCallsOf(k)) <= 1

\* C3 witness: the operation of the 2nd of 3 edges has failed after the 1st
\* reported success
C3_Witness ==
    /\ LogEdges("halt") = {2}
    /\ Len(plan) = 3
    /\ LogEdges("ok") = {1}
    /\ ~Unexecutable(plan[3])
    /\ CallsOf(3) = {}

\* C4: external calls are made one at a time in plan order: at most one is in
\* flight, each starts only after every earlier call has settled, and none is
\* in flight while the executor waits for a scheduled offset.
C4_OneAtATime ==
    /\ Cardinality(inflight) <= 1
    /\ pc \in {"sleep", "loop", "try"} => inflight = {}
    /\ \A j \in 1..(Len(calls) - 1) :
          /\ calls[j] \notin inflight
          /\ calls[j].edge <= calls[j + 1].edge

\* C4 witness: the executor waits for the offset of a later edge after the
\* call of an earlier edge has settled
C4_Witness ==
    /\ pc = "sleep"
    /\ Len(calls) >= 1
    /\ idx > calls[Len(calls)].edge
    /\ now < ScheduledTime(plan[idx])

\* the operation the edge's kind selects
KindOp(e) ==
    CASE e.type = "sol-transfer"   -> "sendSol"
      [] e.type = "swap"           -> "executeSwap"
      [] e.type = "token-transfer" -> "sendSplToken"

\* edges the for-loop has moved on from
Passed == IF pc = "done" THEN 1..Len(plan) ELSE 1..(idx - 1)

C11_SkipLoggedAndContinues ==
    \A i \in 1..Len(plan) :
        Unexecutable(plan[i]) =>
            /\ CallsOf(i) = {}
            /\ i \notin LogEdges("halt")
            /\ ~(pc \in {"halted", "sleep", "try", "await"} /\ idx = i)
            /\ i \in Passed => i \in LogEdges("skip")

\* C12: no external call starts before startTime + sendTime of its edge, and
\* an executable edge reached at or after that instant goes into the try block
\* at once: no wait is logged, no timer set, and the edge is not passed over.
C12_NotBeforeSchedule ==
    [][ /\ calls' # calls =>
              /\ now >= ScheduledTime(plan[idx])
              /\ now' = now
        /\ (AtEdge /\ ~Unexecutable(plan[idx]) /\ now >= ScheduledTime(plan[idx])) =>
              /\ pc' = "try" /\ idx' = idx
              /\ log' = log /\ now' = now
        /\ (pc = "try" /\ idx' # idx) =>
              idx \in LogEdges("swap-skip")' ]_vars

\* C14: once buildFundingGraph has thrown, runMixing has returned with running
\* = false and the planning error as the one and last entry of its kind in
\* the log; no plan is set and no external operation was or is ever started.
C14_PlanningFailureStopsRun ==
    LogEdges("critical") # {} =>
        /\ pc = "returned" /\ ~running
        /\ calls = <<>> /\ inflight = {}
        /\ plan = <<>>
        /\ log[Len(log)].tag = "critical"
        /\ Cardinality({ j \in 1..Len(log) : log[j].tag \in {"critical", "building"} }) = 2

\* C14 witness: planning has failed after taking some time
C14_Witness ==
    /\ pc = "returned"
    /\ LogEdges("critical") # {}
    /\ now > startTime

\* C12 witness: the 1st edge waited for its offset and was dispatched; the 2nd
\* edge, reached after its scheduled instant, is in the try block with no wait
C12_Witness ==
    /\ pc = "try" /\ idx = 2
    /\ now > ScheduledTime(plan[2])
    /\ 1 \in LogEdges("waiting") /\ 2 \notin LogEdges("waiting")
    /\ CallsOf(1) # {}

-----------------------------------------------------------------------------
(* Properties of a session: handleSweep                                    *)

\* the keys of the nodes of the plan that hold one, in node order
KeyedNodeKeys ==
    LET keyed == SelectSeq(planNodes, LAMBDA n : n.keypair # 0)
    IN  [k \in 1..Len(keyed) |-> keyed[k].keypair]

\* C13: handleSweep's loop starts at the first node of the plan that holds a
\* key and, whatever the outcome of the sweep before, attempts sweepSol on the
\* next such node, one attempt per turn in node order, until each has had its
\* attempt; a sweepSol that throws is logged as failed; after them no node of
\* the plan is attempted again, and no sweep is attempted outside the loop.
C13_SweepsEveryKeyedNode ==
    [][ /\ (pc = "ready" /\ pc' = "sweep") => idx' = 1
        /\ (pc = "sweep" /\ idx <= Len(KeyedNodeKeys)) =>
              /\ pc' = "sweep" /\ idx' = idx + 1
              /\ calls' = Append(calls, Call(KeyedNodeKeys[idx], "sweepSol"))
              /\ swOut'.threw =>
                    log' = Append(log, LogEntry("sweep-failed", KeyedNodeKeys[idx]))
        /\ (calls' # calls /\ calls' # <<>>) =>
              /\ pc = "sweep"
              /\ idx > Len(KeyedNodeKeys) =>
                    \A k \in 1..Len(KeyedNodeKeys) :
                        calls'[Len(calls')].edge # KeyedNodeKeys[k] ]_vars

\* C13 witness: the loop is through the 7 wallets of a plan; the sweep of the
\* source wallet failed and was logged, and a later wallet was swept
C13_Witness ==
    /\ pc = "sweep"
    /\ Len(KeyedNodeKeys) = 7 /\ idx = 8
    /\ Len(calls) = 7
    /\ \A k \in 1..7 : calls[k] = Call(KeyedNodeKeys[k], "sweepSol")
    /\ \E i, j \in 1..Len(log) :
          /\ i < j
          /\ log[i] = LogEntry("sweep-failed", KeyedNodeKeys[1])
          /\ log[j].tag = "swept"

\* the keys of the hubs and distributors of a node list
\* C16: the stored key changes only when the mount effect, finding none,
\* stores the key of the deposit wallet it has just generated, or when
\* handleReset removes it; runMixing and handleSweep leave it as it is. Every
\* plan set holds six intermediate keys generated by its own buildFundingGraph
\* call, none of them the stored key or a key generated before.
C16_StorageHoldsDepositKeyOnly ==
    [][ /\ store' # store =>
              \/ /\ pc = "unmounted" /\ store = 0
                 /\ store' = depositWallet' /\ store' > gen
              \/ /\ pc = "ready" /\ pc' = "unmounted" /\ store' = 0
        /\ pc \in {"mixing", "sweep"} => store' = store
        /\ (planNodes' # planNodes /\ planNodes' # <<>>) =>
              /\ Cardinality(IntermediateKeys(planNodes')) = NumIntermediate
              /\ \A key \in IntermediateKeys(planNodes') : key > gen /\ key <= gen'
              /\ store' = store
        /\ store' \notin IntermediateKeys(planNodes') ]_vars

\* C16 witness: the second plan of a session is being executed: the key stored
\* is the deposit wallet's, generated at mount, and the plan's intermediate
\* keys are those of the second buildFundingGraph call
C16_Witness ==
    /\ pc = "mixing"
    /\ log[1].tag = "wallet-generated"
    /\ store = 1 /\ depositWallet = 1
    /\ gen = 1 + 2 * NumIntermediate
    /\ IntermediateKeys(planNodes) = (gen - NumIntermediate + 1)..gen

-----------------------------------------------------------------------------
(* Order of funding and spending in the returned graph                     *)

\* C19: in the returned edge order, every edge out of a hub or a distributor
\* has an edge into that node somewhere before it, and no edge into that node
\* after it, whatever totalSeconds and the draws are.
C19_FundingPrecedesSpending ==
    gRes = "graph" =>
        \A i \in 1..Len(Edges) :
            Edges[i].from \in IntermediateIds =>
                /\ \E j \in 1..(i - 1) : Edges[j].to = Edges[i].from
                /\ \A j \in 1..Len(Edges) : Edges[j].to = Edges[i].from => j < i

\* a graph drawn over a positive duration in which a distributor's funding and
\* its spending fall on the same second, and so does a hub's
C19_Witness ==
    /\ gRes = "graph"
    /\ gArgs.T > 0
    /\ \E i, j \in 1..Len(Edges) :
          /\ Edges[i].to = Edges[j].from
          /\ Edges[j].from \in DistributorIds
          /\ Edges[i].sendTime = Edges[j].sendTime
    /\ \E i, j \in 1..Len(Edges) :
          /\ Edges[i].to = Edges[j].from
          /\ Edges[j].from \in IntermediateIds \ DistributorIds
          /\ Edges[i].sendTime = Edges[j].sendTime

-----------------------------------------------------------------------------
(* The cost model and the edges of the returned graph                      *)

\* the intermediate wallets that some edge of the graph pays
FundedIds == { id \in IntermediateIds : EdgesTo(id) # <<>> }

\* C23: in a returned graph, totalFees is txFee times the number of edges and
\* totalRent is the rent exemption times the number of intermediate wallets
\* that an edge pays.
C23_CostMatchesTopology ==
    gRes = "graph" =>
        /\ TotalFees(gArgs.R) = txFeeLamports * Len(Edges)
        /\ TotalRent(gArgs.rent) = gArgs.rent * Cardinality(FundedIds)

HasEdge(from, to) ==
    \E i \in 1..Len(Edges) : Edges[i].from = from /\ Edges[i].to = to

\* the ids of the intermediate wallets of the returned graph, in node order
NodeIds == [k \in 1..NumIntermediate |-> Nodes[k + 1].id]

\* C24: a returned graph has an edge from the source to each hub, from each
\* hub to each distributor assigned to it (distributor d to hub d mod 2), and
\* from each distributor to each recipient assigned to it (recipient i to
\* distributor i mod 4), whatever the amounts computed for them, 0 included.
C24_TopologyEdgesPresent ==
    gRes = "graph" =>
        /\ \A h \in 1..Len(hubs) : HasEdge(SourceId, NodeIds[hubs[h]])
        /\ \A d \in 1..Len(distributors) :
              HasEdge(NodeIds[hubs[((d - 1) % NUM_LAYER_1_HUBS) + 1]],
                      NodeIds[distributors[d]])
        /\ \A i \in 0..(gArgs.R - 1) :
              HasEdge(NodeIds[distributors[(i % NUM_LAYER_2_DISTRIBUTORS) + 1]],
                      RecipientId(i))

\* C25: in a returned graph built on a funding source that holds a key, every
\* edge's `from` is the id of a node holding a key and of no node without one,
\* every edge's `to` is the id of a node, and no two nodes share an id.
C25_PlanFullyExecutable ==
    gRes = "graph" =>
        /\ \A i \in 1..Len(Edges) :
              /\ \E k \in 1..Len(Nodes) : Nodes[k].id = Edges[i].from
              /\ \A k \in 1..Len(Nodes) : Nodes[k].id = Edges[i].from => Nodes[k].keypair
              /\ \E k \in 1..Len(Nodes) : Nodes[k].id = Edges[i].to
        /\ \A j, k \in 1..Len(Nodes) : Nodes[j].id = Nodes[k].id => j = k

\* C30: in a returned graph the amounts of the edges leaving the source, plus
\* one transaction fee for each of those edges, are at most totalSol.
C30_SourceNeverOverdrawn ==
    gRes = "graph" =>
        RLeq(RAdd(AmountsOf(EdgesFrom(SourceId)),
                  RInt(Len(EdgesFrom(SourceId)) * txFeeLamports)),
             RInt(gArgs.totalSol))

-----------------------------------------------------------------------------
(* The lamports sendSol transfers for the edges of the returned graph      *)

\* Math.round(x) for x >= 0: the nearest integer, a half going up
MathRound(x) == (2 * x[1] + x[2]) \div (2 * x[2])

\* lamports: Math.round(amountSol * LAMPORTS_PER_SOL), summed over edges
RECURSIVE SentLamports(_)
SentLamports(es) ==
    IF es = <<>> THEN 0 ELSE MathRound(Head(es).amount) + SentLamports(Tail(es))

\* C21: every hub and distributor of a returned graph receives, in the
\* lamports sendSol transfers for its incoming edge, at least the lamports
\* sendSol transfers for its outgoing edges plus 5000 lamports per outgoing
\* edge.
C21_ClosureSurvivesRounding ==
    gRes = "graph" =>
        \A id \in IntermediateIds :
            SentLamports(EdgesTo(id)) >=
                SentLamports(EdgesFrom(id)) + Len(EdgesFrom(id)) * txFeeLamports

\* lo * T / 10 <= sendTime < hi * T / 10
InWindow(e, lo, hi) ==
    lo * gArgs.T <= 10 * e.sendTime /\ 10 * e.sendTime < hi * gArgs.T

\* C28: in a returned graph for T = totalSeconds, an edge out of the source
\* has its sendTime in [0, 0.2*T), an edge from a hub to a distributor in
\* [0.2*T, 0.5*T), and an edge into a recipient in [0.5*T, T).
C28_StageWindows ==
    gRes = "graph" =>
        \A i \in 1..Len(Edges) :
            IF Edges[i].from = SourceId THEN InWindow(Edges[i], 0, 2)
            ELSE IF IsRecipientId(Edges[i].to) THEN InWindow(Edges[i], 5, 10)
            ELSE InWindow(Edges[i], 2, 5)

\* floor(lo * T / 10) <= sendTime < hi * T / 10, or sendTime = 0 when T = 0
InFlooredWindow(e, lo, hi) ==
    /\ (lo * gArgs.T) \div 10 <= e.sendTime
    /\ \/ 10 * e.sendTime < hi * gArgs.T
       \/ gArgs.T = 0 /\ e.sendTime = 0

\* C28, amended: every sendTime is a whole number of seconds; an edge out of
\* the source has it in [0, 0.2*T), an edge from a hub to a distributor in
\* [floor(0.2*T), 0.5*T), an edge into a recipient in [floor(0.5*T), T); for
\* T = 0 every sendTime is 0.
C28_FlooredStageWindows ==
    gRes = "graph" =>
        \A i \in 1..Len(Edges) :
            IF Edges[i].from = SourceId THEN InFlooredWindow(Edges[i], 0, 2)
            ELSE IF IsRecipientId(Edges[i].to) THEN InFlooredWindow(Edges[i], 5, 10)
            ELSE InFlooredWindow(Edges[i], 2, 5)

\* C28 witness: over a positive duration, a hub-to-distributor edge scheduled
\* before 0.2*T and a recipient edge scheduled before 0.5*T
C28_Witness ==
    /\ gRes = "graph"
    /\ gArgs.T > 0
    /\ \E i, j \in 1..Len(Edges) :
          /\ Edges[i].from # SourceId /\ ~IsRecipientId(Edges[i].to)
          /\ 10 * Edges[i].sendTime < 2 * gArgs.T
          /\ IsRecipientId(Edges[j].to)
          /\ 10 * Edges[j].sendTime < 5 * gArgs.T

-----------------------------------------------------------------------------
(* Properties of sweepSol                                                  *)

\* C18: once sweepSol has read a balance, a balance of at most the 5000
\* lamports of the fee makes it submit no transfer and return amount 0
\* without throwing; a larger balance makes it submit exactly one transfer, of
\* balance - 5000 lamports, and the amount it returns, if it returns, is that
\* many lamports in SOL.
C18_SweepSolFeeFloor ==
    (swOut.called /\ swArgs.balOk) =>
        IF swArgs.balance <= SweepFee
        THEN /\ ~swOut.threw
             /\ swOut.transfers = <<>>
             /\ swOut.amount[1] = 0
        ELSE /\ swOut.transfers = <<swArgs.balance - SweepFee>>
             /\ ~swOut.threw =>
                   /\ swOut.amount[1] = swOut.transfers[1]
                   /\ swOut.amount[2] = LamportsPerSol

C18_Witness ==
    /\ swOut.called /\ swArgs.balOk /\ swArgs.txOk
    /\ swArgs.balance = SweepFee + 1
    /\ swOut.transfers = <<1>>
    /\ swOut.signature = "signature"
    /\ swOut.amount = <<1, LamportsPerSol>>

-----------------------------------------------------------------------------
(* The completion entry of runMixing                                       *)

Logged(tag, edge) == \E j \in 1..Len(log) : log[j] = LogEntry(tag, edge)
Called(edge)      == \E j \in 1..Len(calls) : calls[j].edge = edge

\* C26 as stated: the completion entry is in the log only if every edge of
\* the plan was dispatched to an operation that succeeded.
C26_AsStated ==
    Logged("complete", 0) =>
        \A i \in 1..Len(plan) : Called(i) /\ Logged("ok", i)

\* C26: the completion entry is in the log only if no dispatch has failed and
\* no call is outstanding, and every edge of the plan was either dispatched to
\* an operation that succeeded, or skipped for a missing key or node with no
\* operation, or was a swap passed over with its skip logged.
C26_CompleteOnlyWithoutHalt ==
    Logged("complete", 0) =>
        /\ inflight = {}
        /\ \A j \in 1..Len(log) : log[j].tag \notin {"halt", "critical"}
        /\ \A i \in 1..Len(plan) :
              \/ Called(i) /\ Logged("ok", i)
              \/ Unexecutable(plan[i]) /\ ~Called(i)
              \/ plan[i].type = "swap" /\ plan[i].zero /\ Logged("swap-skip", i)

\* C26 witness: a plan completed with one edge transferred and another skipped
C26_Witness ==
    /\ Logged("complete", 0)
    /\ \E i, k \in 1..Len(plan) :
          /\ Called(i) /\ Logged("ok", i)
          /\ Unexecutable(plan[k]) /\ ~Called(k)

-----------------------------------------------------------------------------
(* The total of handleSweep                                                *)

\* the lamports of a sweepSol result that submitted a transfer and returned
RealAmount(res) ==
    IF ~res.threw /\ res.transfers # <<>> THEN res.amount[1] ELSE 0

\* C27: handleSweep starts its total at 0, adds to it at every turn of the
\* loop the amount sweepSol returned if the sweep submitted a transfer (and
\* nothing otherwise), and reports it, to 5 decimals, when the loop is through.
C27_TotalIsSumOfRealSweeps ==
    [][ /\ (pc = "ready" /\ pc' = "sweep") => totalSwept' = 0
        /\ (pc = "sweep" /\ calls' # calls) =>
              totalSwept' = totalSwept + RealAmount(swOut')
        /\ (pc = "sweep" /\ pc' = "ready") =>
              log' = Append(log, LogEntry("sweep-complete", ToFixed5(totalSwept))) ]_vars

-----------------------------------------------------------------------------
(* Termination of runMixing and handleSweep                                *)

\* C29: whenever running is true it is false again later: every runMixing
\* execution and every handleSweep, once it has set running, goes on to an
\* end at which running is false.
C29_RunningEndsFalse ==
    running ~> ~running

\* C29 witness: a run that waited for an edge's offset and was halted by a
\* failed dispatch has returned with running false; so has, elsewhere, a
\* sweep in which a wallet failed
C29_Witness ==
    /\ ~running
    /\ \/ pc = "halted" /\ \E i \in 1..Len(plan) : Logged("waiting", i) /\ Logged("halt", i)
       \/ /\ pc = "ready" /\ planNodes = <<>>
          /\ \E j \in 1..Len(log) : log[j].tag = "sweep-failed"
          /\ \E j \in 1..Len(log) : log[j].tag = "sweep-complete"

-----------------------------------------------------------------------------
(* Keys of funded wallets                                                  *)

\* C22: while the page is mounted, the key of every intermediate wallet that
\* has received a transfer and has not been swept since is the key of a node
\* of the plan state.
C22_FundedKeysHeld ==
    pc # "unmounted" => funded \subseteq IntermediateKeys(planNodes)

-----------------------------------------------------------------------------
(* Properties of deposit polling and the starts of runMixing               *)

\* C17: every step leaves the log as it was or extends it by a suffix, and
\* every step in which an external call raises an error (a balance query, a
\* dispatch, the planning) extends it.
C17_LogAppendOnlyAndComplete ==
    [][ /\ Len(log') >= Len(log)
        /\ SubSeq(log', 1, Len(log)) = log
        /\ lastError' => Len(log') > Len(log) ]_vars

\* C20: no runMixing execution is in progress while another is in progress or
\* pending (deferred by the 500 ms timer, or awaiting its balance refresh).
C20_AtMostOneExecution ==
    active >= 1 => active + pending = 1

-----------------------------------------------------------------------------
(* Properties of randomSplit                                               *)

SharesOk(total, n) ==
    /\ Len(sOut.shares) = n
    /\ \A i \in 1..Len(sOut.shares) : RLeq(RInt(0), sOut.shares[i])
    /\ RSum(sOut.shares) = RInt(total)

\* C7 as stated: for all n >= 1 and total >= 0 the result has n amounts, all
\* >= 0, summing to total.
C7_AsStated ==
    (sOut.called /\ sN >= 1 /\ sTotal >= 0) => SharesOk(sTotal, sN)

\* C7 amended: for all n >= 1 and total > 0 the result has n amounts, all
\* >= 0, summing to exactly total.
C7_SplitSumsToTotal ==
    (sOut.called /\ sN >= 1 /\ sTotal > 0) => SharesOk(sTotal, sN)

\* C7 witness: a split into three or more unequal shares
C7_Witness ==
    /\ sOut.called /\ sN >= 3 /\ sTotal > 0
    /\ \E i, j \in 1..Len(sOut.shares) : RLt(sOut.shares[i], sOut.shares[j])

\* C8: for n >= 2 every returned amount lies in [0.85, 1.15] * total / n.
C8_WithinJitterOfEqualShare ==
    (sOut.called /\ sN >= 2 /\ sTotal > 0) =>
        \A i \in 1..Len(sOut.shares) :
            LET equalShare == RDiv(RInt(sTotal), RInt(sN))
                half       == VariationPercent \div 2
            IN  /\ RLeq(RMul(equalShare, <<100 - half, 100>>), sOut.shares[i])
                /\ RLeq(sOut.shares[i], RMul(equalShare, <<100 + half, 100>>))

\* C9: the result is empty whenever n <= 0 or total <= 0.
C9_EmptyOnNonPositive ==
    (sOut.called /\ (sN <= 0 \/ sTotal <= 0)) => sOut.shares = <<>>

\* C9 witness: allocate(0, n) with n >= 2 has returned empty
C9_Witness ==
    /\ sOut.called /\ sTotal = 0 /\ sN >= 2
    /\ sOut.shares = <<>>

====
